---- MODULE Spec2Model ----
(***************************************************************************)
(* State-machine model of proprietary_ble.c: the fixed pool allocator      *)
(* (pool_init / pool_alloc / pool_free / pool_destroy), the device queue   *)
(* (a doubly linked list threaded through the pool's blocks) and the two   *)
(* entry points on_discovery and print_queue_by_rssi / print_queue_by_time.*)
(*                                                                         *)
(* Pointers are block numbers 1..N, NULL is 0.  The C functions are        *)
(* operators over a record `s` holding the globals they touch; an action   *)
(* runs one whole call and stores the record back into the variables.      *)
(***************************************************************************)
EXTENDS Integers, Sequences, FiniteSets, TLC

\* Capacity: the 32 of the source (pool array, pool_init in main, the two
\* comparisons of on_discovery, sorted[32]), scaled down to keep the state
\* space small.
N == 3
\* Number of distinct device ids the radio may report.
NumIds == 4
\* Largest value systime_ms_get() returns.
MaxTime == 1
\* pool_alloc calls the pool client makes beyond N in a row after pool_init.
ExtraAllocs == 2
\* Devices whose advertisement changes between observations.
NumChanging == 2

NULL == 0
SizeofDevice == 120

Blocks == 1..N
Ptr == 0..N
DeviceIds == 1..NumIds
Times == 0..MaxTime
\* uint8_t rssi values: one below and one above 127, so that a signed
\* comparison would order them the other way round.
RssiVals == {80, 200}
\* uint32_t rf_address values (standing for device_name and device_data
\* too: the members of adv besides device_id and rssi).
RfVals == {0, 1}
\* A value no pointer has: the result of a loop that never ends.
NoReturn == N + 1

VARIABLES
  header,        \* fixedpool_t at the start of device_pool
  block,         \* blockheader_t.nextfree of every block
  mem,           \* the device_t stored in every block
  head,          \* device_t *head
  tail,          \* device_t *tail
  device_count,  \* int device_count
  status,        \* "running", or how the process ended: "segv", "hang"
  warn,          \* the WARNING lines printed by the latest call
  out,           \* the table rows printed by the latest call
  sorted,        \* the local array sorted[] of the latest print_queue_by_rssi
  call,          \* the latest call: its name, arguments, branch and result
  observed,      \* device ids passed to on_discovery since the queue was last cleared
  clock,         \* the latest value systime_ms_get() returned
  owned,         \* pool test client: blocks it got from pool_alloc and has not freed
  allocs,        \* pool test client: results of the pool_alloc calls since pool_init
  fresh,         \* pool test client: only pool_alloc was called since pool_init
  released,      \* pool test client: blocks it held and passed to pool_free, not returned by pool_alloc since
  destroyed      \* pool test client: pool_destroy was called and pool_init has not been since

vars == <<header, block, mem, head, tail, device_count, status, warn, out,
          sorted, call, observed, clock, owned, allocs, fresh, released,
          destroyed>>

clientVars == <<owned, allocs, fresh, released, destroyed>>

(***************************************************************************)
(* Data                                                                    *)
(***************************************************************************)
\* pair_adv_data_t; device_name, device_data and rf_address are the fields
\* that never change for a device, modelled by rf_address alone.
pair_adv_data_t(id, rf, rssi) == [device_id |-> id, rf_address |-> rf, rssi |-> rssi]

ZeroAdv == pair_adv_data_t(0, 0, 0)

\* device_t in zero-initialised static storage.
ZeroDevice == [adv |-> ZeroAdv, discovery_time |-> 0, next |-> NULL, prev |-> NULL]

\* device_t *sorted[32] = {0}
ZeroSorted == [j \in 0..(N - 1) |-> NULL]

\* What dereferencing a null pointer may do: the process is killed, or the
\* access goes through (address 0 is ordinary memory) and execution continues.
UBOutcomes == {"segv", "continue"}

\* The globals as one record, at the start of a call (nothing printed yet;
\* .ops lists the pool functions the call has entered so far).
Cur == [header |-> header, block |-> block, mem |-> mem, head |-> head,
        tail |-> tail, device_count |-> device_count, status |-> status,
        warn |-> {}, out |-> <<>>, sorted |-> ZeroSorted,
        ret |-> NULL, path |-> "none", ops |-> <<>>]

(***************************************************************************)
(* Device memory pool                                                      *)
(***************************************************************************)
RECURSIVE pool_init_walk(_, _, _)
RECURSIVE pool_init_walk_short(_, _, _)
\* pool_init_walk with the loop stopping one block early (i > 0 written for
\* the 0-based i >= 0): the first block is never linked.
pool_init_walk_short(blk, i, prev) ==
  IF i > 1
    THEN pool_init_walk_short([blk EXCEPT ![i] = prev], i - 1, i)
    ELSE [block |-> blk, cur |-> prev]

\* The loop of pool_init: i runs from blockcount down to 1, each block's
\* nextfree is set to the block visited before it.  Result: links and cur.
pool_init_walk(blk, i, prev) ==
  IF i >= 1
    THEN pool_init_walk([blk EXCEPT ![i] = prev], i - 1, i)
    ELSE [block |-> blk, cur |-> prev]

pool_init(s, blocksize, blockcount) ==
  LET w == pool_init_walk(s.block, blockcount, NULL)
  IN [s EXCEPT !.header = [nextfree |-> w.cur, blocksize |-> blocksize,
                           blockcount |-> blockcount],
               !.block = w.block]

pool_destroy(s) ==
  [s EXCEPT !.header = [nextfree |-> NULL, blocksize |-> 0, blockcount |-> 0]]

\* pool_alloc without header->nextfree = block->nextfree: the block handed
\* out stays on top of the free list.
pool_alloc_nopop(s) ==
  LET b == s.header.nextfree
  IN [s EXCEPT !.ret = b, !.ops = Append(@, "pool_alloc")]

pool_alloc(s) ==
  LET b == s.header.nextfree
  IN IF b # NULL
       THEN [s EXCEPT !.header.nextfree = s.block[b], !.block[b] = NULL, !.ret = b,
                      !.ops = Append(@, "pool_alloc")]
       ELSE [s EXCEPT !.ret = NULL, !.ops = Append(@, "pool_alloc")]

\* pool_free that returns without putting the block on the free list.
pool_free_drop(s, ptr) == [s EXCEPT !.ops = Append(@, "pool_free")]

pool_free(s, ptr) ==
  IF ptr = NULL
    THEN [s EXCEPT !.warn = @ \cup {"null free"}, !.ops = Append(@, "pool_free")]
    ELSE LET s1 == IF s.block[ptr] # NULL
                     THEN [s EXCEPT !.warn = @ \cup {"double free"}]
                     ELSE s
         IN [s1 EXCEPT !.block[ptr] = s1.header.nextfree, !.header.nextfree = ptr,
                       !.ops = Append(@, "pool_free")]

(***************************************************************************)
(* Device queue                                                            *)
(***************************************************************************)
RECURSIVE find_from(_, _, _, _)
\* The loop of find_duplicate from node cur.  After N nodes without a match
\* and without reaching NULL the walk is inside a cycle and never returns.
find_from(s, cur, id, fuel) ==
  IF cur = NULL THEN NULL
  ELSE IF s.mem[cur].adv.device_id = id THEN cur
  ELSE IF fuel = 0 THEN NoReturn
  ELSE find_from(s, s.mem[cur].next, id, fuel - 1)

\* find_duplicate that looks at the head entry only.
find_duplicate_head_only(s, data) ==
  IF s.head # NULL /\ s.mem[s.head].adv.device_id = data.device_id
    THEN s.head
    ELSE NULL

find_duplicate(s, data) == find_from(s, s.head, data.device_id, N)

\* queue_remove without --device_count.
queue_remove_nodec(s, node) ==
  IF node # NULL
    THEN LET h1 == IF s.head = node THEN s.mem[node].next ELSE s.head
             t1 == IF s.tail = node THEN s.mem[node].prev ELSE s.tail
             m0 == s.mem
             m1 == IF m0[node].prev # NULL
                     THEN [m0 EXCEPT ![m0[node].prev].next = m0[node].next]
                     ELSE m0
             m2 == IF m1[node].next # NULL
                     THEN [m1 EXCEPT ![m1[node].next].prev = m1[node].prev]
                     ELSE m1
             m3 == [m2 EXCEPT ![node].prev = NULL, ![node].next = NULL]
         IN [s EXCEPT !.head = h1, !.tail = t1, !.mem = m3]
    ELSE s

\* queue_remove without node->next->prev = node->prev.
queue_remove_norelink(s, node) ==
  IF node # NULL
    THEN LET h1 == IF s.head = node THEN s.mem[node].next ELSE s.head
             t1 == IF s.tail = node THEN s.mem[node].prev ELSE s.tail
             m0 == s.mem
             m1 == IF m0[node].prev # NULL
                     THEN [m0 EXCEPT ![m0[node].prev].next = m0[node].next]
                     ELSE m0
             m3 == [m1 EXCEPT ![node].prev = NULL, ![node].next = NULL]
         IN [s EXCEPT !.head = h1, !.tail = t1, !.mem = m3,
                      !.device_count = @ - 1]
    ELSE s

queue_remove(s, node) ==
  IF node # NULL
    THEN LET h1 == IF s.head = node THEN s.mem[node].next ELSE s.head
             t1 == IF s.tail = node THEN s.mem[node].prev ELSE s.tail
             m0 == s.mem
             m1 == IF m0[node].prev # NULL
                     THEN [m0 EXCEPT ![m0[node].prev].next = m0[node].next]
                     ELSE m0
             m2 == IF m1[node].next # NULL
                     THEN [m1 EXCEPT ![m1[node].next].prev = m1[node].prev]
                     ELSE m1
             m3 == [m2 EXCEPT ![node].prev = NULL, ![node].next = NULL]
         IN [s EXCEPT !.head = h1, !.tail = t1, !.mem = m3,
                      !.device_count = @ - 1]
    ELSE s

\* queue_push without ++device_count.
queue_push_noinc(s, node) ==
  IF node # NULL
    THEN LET m1 == [s.mem EXCEPT ![node].prev = NULL, ![node].next = s.head]
             m2 == IF s.head # NULL THEN [m1 EXCEPT ![s.head].prev = node] ELSE m1
         IN [s EXCEPT !.mem = m2, !.head = node,
                      !.tail = IF s.tail = NULL THEN node ELSE s.tail]
    ELSE s

queue_push(s, node) ==
  IF node # NULL
    THEN LET m1 == [s.mem EXCEPT ![node].prev = NULL, ![node].next = s.head]
             m2 == IF s.head # NULL THEN [m1 EXCEPT ![s.head].prev = node] ELSE m1
         IN [s EXCEPT !.mem = m2, !.head = node,
                      !.tail = IF s.tail = NULL THEN node ELSE s.tail,
                      !.device_count = @ + 1]
    ELSE s

\* queue_pop without --device_count.
queue_pop_nodec(s) ==
  LET node == s.tail
  IN IF node # NULL
       THEN LET t == s.mem[node].prev
                m1 == IF t # NULL THEN [s.mem EXCEPT ![t].next = NULL] ELSE s.mem
            IN [s EXCEPT !.tail = t, !.mem = m1,
                         !.head = IF s.head = node THEN NULL ELSE s.head,
                         !.ret = node]
       ELSE [s EXCEPT !.ret = NULL]

\* queue_pop taking the node at the wrong end of the list, the head.
queue_pop_head(s) ==
  LET node == s.head
  IN IF node # NULL
       THEN LET h == s.mem[node].next
                m1 == IF h # NULL THEN [s.mem EXCEPT ![h].prev = NULL] ELSE s.mem
            IN [s EXCEPT !.head = h, !.mem = m1,
                         !.tail = IF s.tail = node THEN NULL ELSE s.tail,
                         !.device_count = @ - 1, !.ret = node]
       ELSE [s EXCEPT !.ret = NULL]

\* Returns the popped node in .ret.
queue_pop(s) ==
  LET node == s.tail
  IN IF node # NULL
       THEN LET t == s.mem[node].prev
                m1 == IF t # NULL THEN [s.mem EXCEPT ![t].next = NULL] ELSE s.mem
            IN [s EXCEPT !.tail = t, !.mem = m1,
                         !.head = IF s.head = node THEN NULL ELSE s.head,
                         !.device_count = @ - 1, !.ret = node]
       ELSE [s EXCEPT !.ret = NULL]

RECURSIVE queue_clear_loop_leak(_, _)
\* queue_clear that pops every entry without pool_free.
queue_clear_loop_leak(s, fuel) ==
  IF s.head = NULL THEN s
  ELSE IF fuel = 0 THEN [s EXCEPT !.status = "hang"]
  ELSE queue_clear_loop_leak(queue_pop(s), fuel - 1)

RECURSIVE queue_clear_loop(_, _)
\* while (head != NULL) pool_free(device_pool, queue_pop());  A run of more
\* than 2N+2 iterations has repeated a state and never ends.
queue_clear_loop(s, fuel) ==
  IF s.head = NULL THEN s
  ELSE IF fuel = 0 THEN [s EXCEPT !.status = "hang"]
  ELSE LET p == queue_pop(s)
       IN queue_clear_loop(pool_free(p, p.ret), fuel - 1)

queue_clear(s) == queue_clear_loop(s, 2 * N + 2)

RECURSIVE queue_walk(_, _, _)
\* for (cur = head; cur != NULL; cur = cur->next): the nodes visited, in
\* order.  A walk that visits more than N nodes is inside a cycle; it is cut
\* there and NoReturn marks that it never ends.
queue_walk(s, cur, fuel) ==
  IF cur = NULL THEN <<>>
  ELSE IF fuel = 0 THEN <<NoReturn>>
  ELSE <<cur>> \o queue_walk(s, s.mem[cur].next, fuel - 1)

(***************************************************************************)
(* Device discovery and printing                                           *)
(***************************************************************************)
RECURSIVE overflow_loop(_)
\* while (device_count > 32) { printf(WARNING); pool_free(queue_pop()); }
\* With tail == NULL queue_pop changes nothing and the loop never ends.
overflow_loop(s) ==
  IF s.device_count > N
    THEN IF s.tail = NULL
           THEN [s EXCEPT !.warn = @ \cup {"large device_count", "null free"},
                          !.status = "hang"]
           ELSE LET p == queue_pop([s EXCEPT !.warn = @ \cup {"large device_count"}])
                IN overflow_loop(pool_free(p, p.ret))
    ELSE s

\* on_discovery_merge that updates the entry where it is, without
\* queue_remove and queue_push.
on_discovery_merge_inplace(s, dupe, data, timestamp) ==
  [s EXCEPT !.mem[dupe].adv.rssi = data.rssi,
            !.mem[dupe].discovery_time = timestamp,
            !.path = "merge"]

\* on_discovery_merge without dupe->discovery_time = timestamp.
on_discovery_merge_notime(s, dupe, data, timestamp) ==
  LET q == queue_push(queue_remove(s, dupe), dupe)
  IN [q EXCEPT !.mem[dupe].adv.rssi = data.rssi, !.path = "merge"]

\* on_discovery_merge with memcpy(dupe, data, sizeof(pair_adv_data_t)) for
\* dupe->adv.rssi = data->rssi.
on_discovery_merge_copyall(s, dupe, data, timestamp) ==
  LET q == queue_push(queue_remove(s, dupe), dupe)
  IN [q EXCEPT !.mem[dupe].adv = data,
               !.mem[dupe].discovery_time = timestamp,
               !.path = "merge"]

\* The branch taken when find_duplicate found dupe.
on_discovery_merge(s, dupe, data, timestamp) ==
  LET q == queue_push(queue_remove(s, dupe), dupe)
  IN [q EXCEPT !.mem[dupe].adv.rssi = data.rssi,
               !.mem[dupe].discovery_time = timestamp,
               !.path = "merge"]

\* on_discovery_insert that gives the block of the evicted entry back with
\* pool_free and takes the block of the new entry from pool_alloc.
on_discovery_insert_realloc(s, data, timestamp, ub) ==
  LET g == overflow_loop(s)
      p == queue_pop(g)
      a == IF g.device_count = N
             THEN [pool_alloc(pool_free(p, p.ret)) EXCEPT !.path = "reuse"]
             ELSE [pool_alloc(g) EXCEPT !.path = "alloc"]
      new == a.ret
  IN IF g.status = "hang" THEN [g EXCEPT !.path = "hang"]
     ELSE IF new = NULL
       THEN [a EXCEPT !.status = IF ub = "segv" THEN "segv" ELSE @,
                      !.path = "null"]
       ELSE queue_push([a EXCEPT !.mem[new].adv = data,
                                 !.mem[new].discovery_time = timestamp],
                       new)

\* The branch taken when find_duplicate found nothing.
\* ub: the outcome of memcpy(new, ...) when new is NULL.
on_discovery_insert(s, data, timestamp, ub) ==
  LET g == overflow_loop(s)
      a == IF g.device_count = N
             THEN [queue_pop(g) EXCEPT !.path = "reuse"]
             ELSE [pool_alloc(g) EXCEPT !.path = "alloc"]
      new == a.ret
  IN IF g.status = "hang" THEN [g EXCEPT !.path = "hang"]
     ELSE IF new = NULL
       THEN [a EXCEPT !.status = IF ub = "segv" THEN "segv" ELSE @,
                      !.path = "null"]
       ELSE queue_push([a EXCEPT !.mem[new].adv = data,
                                 !.mem[new].discovery_time = timestamp],
                       new)

on_discovery(s, data, timestamp, ub) ==
  LET dupe == find_duplicate(s, data)
  IN IF dupe = NoReturn THEN [s EXCEPT !.status = "hang", !.path = "hang"]
     ELSE IF dupe # NULL THEN on_discovery_merge(s, dupe, data, timestamp)
     ELSE on_discovery_insert(s, data, timestamp, ub)

\* One printed table row.
Row(s, p) ==
  [time |-> s.mem[p].discovery_time, dev |-> s.mem[p].adv.device_id,
   rssi |-> s.mem[p].adv.rssi]

\* What a row read through a null pointer shows: whatever lies at address 0.
GarbageRow == [time |-> "?", dev |-> "?", rssi |-> "?"]

print_queue_by_time(s) ==
  LET w == queue_walk(s, s.head, N)
      ends == \A i \in 1..Len(w) : w[i] # NoReturn
  IN [s EXCEPT !.out = [i \in 1..Len(w) |->
                          IF w[i] = NoReturn THEN GarbageRow ELSE Row(s, w[i])],
               !.status = IF ends THEN @ ELSE "hang"]

\* The comparison with >= for >: equal entries are swapped too.
RssiGreaterOrEqual(a, b) == a >= b

\* sorted[j]->adv.rssi > sorted[j-1]->adv.rssi on uint8_t operands.
RssiGreater(a, b) == a > b

RECURSIVE sort_swap(_, _, _)
\* The inner while loop: sink sorted[j] towards the front.
sort_swap(s, arr, j) ==
  IF j > 0 /\ RssiGreater(s.mem[arr[j]].adv.rssi, s.mem[arr[j - 1]].adv.rssi)
    THEN sort_swap(s, [arr EXCEPT ![j] = arr[j - 1], ![j - 1] = arr[j]], j - 1)
    ELSE arr

RECURSIVE sort_loop(_, _, _, _)
\* The for loop over the queue; .full is the next_i >= 32 break.
sort_loop(s, arr, next_i, to_insert) ==
  IF to_insert = NULL THEN [sorted |-> arr, next_i |-> next_i, full |-> FALSE]
  ELSE IF next_i >= N THEN [sorted |-> arr, next_i |-> next_i, full |-> TRUE]
  ELSE sort_loop(s, sort_swap(s, [arr EXCEPT ![next_i] = to_insert], next_i),
                 next_i + 1, s.mem[to_insert].next)

\* ub: the outcome of sorted[j]->... when sorted[j] is NULL.
print_queue_by_rssi(s, ub) ==
  LET r == sort_loop(s, ZeroSorted, 0, s.head)
      nulls == {j \in 0..(N - 1) : r.sorted[j] = NULL}
      \* for (j = 0; j < 32; j++): rows printed before a fatal null read
      last == IF nulls # {} /\ ub = "segv"
                THEN CHOOSE j \in nulls : \A k \in nulls : j <= k
                ELSE N
  IN [s EXCEPT !.sorted = r.sorted,
               !.warn = IF r.full THEN @ \cup {"large device_count"} ELSE @,
               !.out = [i \in 1..last |->
                          IF r.sorted[i - 1] = NULL THEN GarbageRow
                          ELSE Row(s, r.sorted[i - 1])],
               !.status = IF nulls # {} /\ ub = "segv" THEN "segv" ELSE @,
               !.path = IF nulls # {} THEN "null" ELSE "none"]

(***************************************************************************)
(* Calls                                                                   *)
(***************************************************************************)
\* Store the globals a call leaves behind.
Commit(s) ==
  /\ header' = s.header
  /\ block' = s.block
  /\ mem' = s.mem
  /\ head' = s.head
  /\ tail' = s.tail
  /\ device_count' = s.device_count
  /\ status' = s.status
  /\ warn' = s.warn
  /\ out' = s.out
  /\ sorted' = s.sorted

Call(op, data, now, ptr, s) ==
  [op |-> op, data |-> data, now |-> now, ptr |-> ptr, ret |-> s.ret, path |-> s.path,
   pool |-> s.ops]

\* uint8_t rssi of a device heard at a steady signal strength: neighbouring
\* ids differ, ids two apart tie.
SteadyRssi(id) == IF id % 2 = 0 THEN 200 ELSE 80

\* The advertisement of device id: every member but rssi is fixed per device.
Advertisement(id, rssi) == pair_adv_data_t(id, id % 2, rssi)

\* One pairing advertisement event: on_discovery(&data) runs to completion,
\* systime_ms_get() returning t.  A null pointer written through is the
\* only undefined step; its outcomes are UBOutcomes.
OnDiscoveryWith(data, t) ==
  LET s == on_discovery(Cur, data, t, "continue")
  IN /\ status = "running"
     /\ \E ub \in (IF s.path = "null" THEN UBOutcomes ELSE {"continue"}) :
          Commit(IF ub = "continue" THEN s ELSE on_discovery(Cur, data, t, ub))
     /\ call' = Call("on_discovery", data, t, NULL, s)
     /\ observed' = observed \cup {data.device_id}
     /\ clock' = t
     /\ UNCHANGED clientVars

\* The event for device id advertising what it always advertises, at rssi.
OnDiscoveryOf(id, rssi, t) == OnDiscoveryWith(Advertisement(id, rssi), t)

\* Any device is heard, at its steady rssi, within the current clock tick.
OnDiscovery == \E id \in DeviceIds : OnDiscoveryOf(id, SteadyRssi(id), clock)

\* One of the first N devices is heard at any rssi, the clock having moved
\* on or not.
OnDiscoveryData ==
  \E id \in 1..N, rssi \in RssiVals, t \in clock..MaxTime : OnDiscoveryOf(id, rssi, t)

\* One of the first NumChanging devices is heard with any rf_address and
\* any rssi, the clock having moved on or not: what a device advertises
\* may differ from what is stored for it.
OnDiscoveryChanged ==
  \E id \in 1..NumChanging, rf \in RfVals, rssi \in RssiVals, t \in clock..MaxTime :
     OnDiscoveryWith(pair_adv_data_t(id, rf, rssi), t)

QueueClear ==
  /\ status = "running"
  /\ LET s == queue_clear(Cur)
     IN /\ Commit(s)
        /\ call' = Call("queue_clear", ZeroAdv, 0, NULL, s)
  /\ observed' = {}
  /\ UNCHANGED <<clock, clientVars>>

PrintQueueByTime ==
  /\ status = "running"
  /\ LET s == print_queue_by_time(Cur)
     IN /\ Commit(s)
        /\ call' = Call("print_queue_by_time", ZeroAdv, 0, NULL, s)
  /\ UNCHANGED <<clock, observed, clientVars>>

PrintQueueByRssi ==
  /\ status = "running"
  /\ \E ub \in UBOutcomes :
       LET s == print_queue_by_rssi(Cur, ub)
       IN /\ Commit(s)
          /\ call' = Call("print_queue_by_rssi", ZeroAdv, 0, NULL, s)
  /\ UNCHANGED <<clock, observed, clientVars>>

\* A client of the pool alone, as test_pool is: it may pass any block of the
\* arena, or NULL, to pool_free, whether it holds the block or not.
PoolInit ==
  /\ status = "running"
  /\ \E blockcount \in 0..N :
       LET s == pool_init(Cur, SizeofDevice, blockcount)
       IN /\ Commit(s)
          /\ call' = Call("pool_init", ZeroAdv, 0, NULL, s)
  /\ owned' = {}
  /\ allocs' = <<>>
  /\ fresh' = TRUE
  /\ released' = {}
  /\ destroyed' = FALSE
  /\ UNCHANGED <<observed, clock>>

PoolAlloc ==
  /\ status = "running"
  /\ fresh => Len(allocs) < N + ExtraAllocs
  /\ LET s == pool_alloc(Cur)
     IN /\ Commit(s)
        /\ call' = Call("pool_alloc", ZeroAdv, 0, NULL, s)
        /\ owned' = IF s.ret # NULL THEN owned \cup {s.ret} ELSE owned
        /\ allocs' = IF fresh THEN Append(allocs, s.ret) ELSE allocs
        /\ released' = released \ {s.ret}
  /\ UNCHANGED <<fresh, destroyed, observed, clock>>

PoolFree ==
  /\ status = "running"
  /\ \E ptr \in Ptr :
       LET s == pool_free(Cur, ptr)
       IN /\ Commit(s)
          /\ call' = [Call("pool_free", ZeroAdv, 0, ptr, s) EXCEPT
                        !.path = IF ptr \in owned THEN "allocated" ELSE "not allocated"]
          /\ owned' = owned \ {ptr}
          /\ released' = released \cup ({ptr} \cap owned)
  /\ allocs' = <<>>
  /\ fresh' = FALSE
  /\ UNCHANGED <<destroyed, observed, clock>>

PoolDestroy ==
  /\ status = "running"
  /\ LET s == pool_destroy(Cur)
     IN /\ Commit(s)
        /\ call' = Call("pool_destroy", ZeroAdv, 0, NULL, s)
  /\ allocs' = <<>>
  /\ fresh' = FALSE
  /\ destroyed' = TRUE
  /\ UNCHANGED <<owned, released, observed, clock>>

\* Zero-initialised static storage, before any call.
Zero ==
  [header |-> [nextfree |-> NULL, blocksize |-> 0, blockcount |-> 0],
   block |-> [b \in Blocks |-> NULL], mem |-> [b \in Blocks |-> ZeroDevice],
   head |-> NULL, tail |-> NULL, device_count |-> 0, status |-> "running",
   warn |-> {}, out |-> <<>>, sorted |-> ZeroSorted, ret |-> NULL, path |-> "none",
   ops |-> <<>>]

InitFrom(s, op, isFresh) ==
  /\ header = s.header
  /\ block = s.block
  /\ mem = s.mem
  /\ head = s.head
  /\ tail = s.tail
  /\ device_count = s.device_count
  /\ status = s.status
  /\ warn = s.warn
  /\ out = s.out
  /\ sorted = s.sorted
  /\ call = Call(op, ZeroAdv, 0, NULL, s)
  /\ observed = {}
  /\ clock = 0
  /\ owned = {}
  /\ allocs = <<>>
  /\ fresh = isFresh
  /\ released = {}
  /\ destroyed = FALSE

\* main() after pool_init(device_pool, sizeof(device_t), 32): all blocks
\* free, the queue empty.
Init == InitFrom(pool_init(Zero, SizeofDevice, N), "pool_init", TRUE)

\* main() on entry: device_pool is zero-filled and pool_init has not run.
InitPool == InitFrom(Zero, "main", FALSE)

\* The queue under discovery events and queue_clear.
Next == OnDiscovery \/ QueueClear

Spec == Init /\ [][Next]_vars

\* The queue under discovery events and the two reports.
NextPrint == OnDiscovery \/ PrintQueueByTime \/ PrintQueueByRssi

SpecPrint == Init /\ [][NextPrint]_vars

NextData == OnDiscoveryData

SpecData == Init /\ [][NextData]_vars

NextPool == PoolInit \/ PoolAlloc \/ PoolFree \/ PoolDestroy

SpecPool == InitPool /\ [][NextPool]_vars

\* The queue under advertisements whose content changes per device.
NextChanged == OnDiscoveryChanged

SpecChanged == Init /\ [][NextChanged]_vars

\* main() with a pool of fewer blocks than the queue may hold entries.
InitShort ==
  \E blockcount \in 0..(N - 1) :
     InitFrom(pool_init(Zero, SizeofDevice, blockcount), "pool_init", TRUE)

\* The queue over a pool that is too small or gets destroyed under it.
NextShort == OnDiscovery \/ QueueClear \/ PoolDestroy

SpecShort == InitShort /\ [][NextShort]_vars

(***************************************************************************)
(* Views of the state the properties are stated over                       *)
(***************************************************************************)
\* The nodes print_queue_by_time visits, head first.
ByTime == queue_walk([mem |-> mem], head, N)

\* The device_id column of print_queue_by_time (0 where the walk was cut).
IdsByTime ==
  LET w == ByTime
  IN [i \in 1..Len(w) |-> IF w[i] \in Blocks THEN mem[w[i]].adv.device_id ELSE 0]

\* The elements of the sequence q.
Range(q) == {q[i] : i \in 1..Len(q)}

LiveIds == Range(IdsByTime)

\* The sequence q without the elements outside the set keep.
Restrict(q, keep) ==
  LET Kept(x) == x \in keep
  IN SelectSeq(q, Kept)

(***************************************************************************)
(* C1                                                                      *)
(***************************************************************************)
\* C1: in every state reached by on_discovery and queue_clear calls from
\* an initialised pool of N blocks and an empty queue, at most N entries
\* are live, and on_discovery never takes its `while (device_count > N)`
\* branch (it never prints the large-device_count warning).
C1_CountAtMostN ==
  /\ device_count <= N
  /\ Len(ByTime) <= N
  /\ call.op = "on_discovery" => "large device_count" \notin warn

\* An insertion into a full queue has happened and the count is still N.
C1_Witness ==
  /\ call.op = "on_discovery"
  /\ call.path = "reuse"
  /\ device_count = N
  /\ Cardinality(observed) = N + 1

(***************************************************************************)
(* C2                                                                      *)
(***************************************************************************)
\* C2: no two live entries carry the same device_id, whatever ids
\* (repeating or new) were passed to on_discovery.
C2_UniqueIds ==
  LET q == IdsByTime
  IN \A i, j \in 1..Len(q) : i # j => q[i] # q[j]

\* A repeated id was merged into a queue that holds several entries.
C2_Witness ==
  /\ call.op = "on_discovery"
  /\ call.path = "merge"
  /\ device_count = N
  /\ head # NULL
  /\ mem[head].adv.device_id = call.data.device_id
  /\ Cardinality(LiveIds) = N

(***************************************************************************)
(* C3                                                                      *)
(***************************************************************************)
\* C3: once more than N distinct device ids have been passed to
\* on_discovery since the queue was last cleared, exactly N entries are
\* live, and every further on_discovery leaves it so.
C3_FullAfterOverflow ==
  Cardinality(observed) > N => device_count = N /\ Len(ByTime) = N

\* More than N distinct ids were seen and a further observation was merged.
C3_Witness ==
  /\ Cardinality(observed) > N
  /\ call.op = "on_discovery"
  /\ call.path = "merge"
  /\ device_count = N

(***************************************************************************)
(* C4                                                                      *)
(***************************************************************************)
\* C4: every on_discovery call leaves the entry it created or updated at
\* the head of the queue and keeps the relative order of all other
\* entries, so print_queue_by_time lists the ids most recently observed
\* first.
C4_RecencyStep ==
  (call'.op = "on_discovery" /\ status' = "running") =>
     \A before \in {IdsByTime}, after \in {IdsByTime'} :
        /\ after # <<>>
        /\ Head(after) = call'.data.device_id
        /\ call'.data.device_id \notin Range(Tail(after))
        /\ Tail(after) = Restrict(before, Range(Tail(after)))

C4_RecencyOrder == [][C4_RecencyStep]_vars

\* Ids 1, 2, 3 were observed in that order and 1 was observed again.
C4_Witness ==
  /\ call.op = "on_discovery"
  /\ call.path = "merge"
  /\ observed = {1, 2, 3}
  /\ IdsByTime = <<1, 3, 2>>

(***************************************************************************)
(* C5                                                                      *)
(***************************************************************************)
\* C5: on_discovery of an id that is not live, called with N live entries,
\* removes exactly the tail entry, puts the new id at the head and keeps
\* the other N - 1 entries in their order.
C5_EvictStep ==
  (call'.op = "on_discovery" /\ device_count = N) =>
     \A before \in {IdsByTime} :
        (Len(before) = N /\ call'.data.device_id \notin Range(before)) =>
          /\ status' = "running"
          /\ device_count' = N
          /\ IdsByTime' = <<call'.data.device_id>> \o SubSeq(before, 1, N - 1)

C5_EvictsTail == [][C5_EvictStep]_vars

\* The queue was filled with 1..N and N + 1 was observed: 1 is gone.
C5_Witness ==
  /\ call.op = "on_discovery"
  /\ call.path = "reuse"
  /\ IdsByTime = [i \in 1..N |-> N + 2 - i]

(***************************************************************************)
(* C6                                                                      *)
(***************************************************************************)
\* C6: on_discovery of an id that is already live evicts nothing: the set
\* of live ids and the live count are the same before and after.
C6_MergeStep ==
  call'.op = "on_discovery" =>
     \A before \in {IdsByTime}, after \in {IdsByTime'} :
        call'.data.device_id \in Range(before) =>
          /\ status' = "running"
          /\ Range(after) = Range(before)
          /\ device_count' = device_count
          /\ Len(after) = Len(before)

C6_MergeKeepsAll == [][C6_MergeStep]_vars

\* N distinct ids were inserted and one of them was observed again.
C6_Witness ==
  /\ call.op = "on_discovery"
  /\ call.path = "merge"
  /\ device_count = N
  /\ Cardinality(LiveIds) = N
  /\ observed = LiveIds

(***************************************************************************)
(* C7 (over SpecData: rssi and clock vary)                                 *)
(***************************************************************************)
\* C7: on_discovery(data) at time now, for a device_id that is already
\* live, leaves exactly one entry with that id, with rssi = data.rssi and
\* discovery_time = now, and the live count unchanged.
C7_MergeStep ==
  call'.op = "on_discovery" =>
     \A before \in {IdsByTime}, nodes \in {ByTime'}, after \in {IdsByTime'},
        id \in {call'.data.device_id} :
        id \in Range(before) =>
          /\ device_count' = device_count
          /\ Len(after) = Len(before)
          /\ Cardinality({i \in 1..Len(after) : after[i] = id}) = 1
          /\ \A i \in 1..Len(after) :
               after[i] = id =>
                 /\ nodes[i] \in Blocks
                 /\ mem'[nodes[i]].adv.rssi = call'.data.rssi
                 /\ mem'[nodes[i]].discovery_time = call'.now

C7_MergeUpdates == [][C7_MergeStep]_vars

\* An entry stored at time 0 with rssi 80 is still there, and another was
\* observed again at the latest time with rssi 200.
C7_Witness ==
  /\ call.op = "on_discovery"
  /\ call.path = "merge"
  /\ call.now = MaxTime
  /\ call.data.rssi = 200
  /\ device_count = N
  /\ mem[head].adv.rssi = 200
  /\ mem[head].discovery_time = MaxTime
  /\ mem[tail].adv.rssi = 80
  /\ mem[tail].discovery_time = 0

(***************************************************************************)
(* C8                                                                      *)
(***************************************************************************)
\* C8: print_queue_by_rssi prints exactly the live entries (as many rows
\* as device_count) and never reads a slot of sorted[] that holds no live
\* entry.
C8_PrintsLiveOnly ==
  call.op = "print_queue_by_rssi" =>
     /\ status = "running"
     /\ call.path # "null"
     /\ Len(out) = device_count
     /\ \A i \in 1..Len(out) : out[i] # GarbageRow

(***************************************************************************)
(* C9                                                                      *)
(***************************************************************************)
\* C9: the array print_queue_by_rssi builds holds the live entries in
\* non-increasing rssi order (rssi compared as uint8_t), entries of equal
\* rssi in their print_queue_by_time order, the more recent first.
C9_SortedStable ==
  call.op = "print_queue_by_rssi" =>
     LET w == ByTime
         k == IF Len(w) < N THEN Len(w) ELSE N
     IN /\ \A j \in 0..(k - 1) : sorted[j] \in Blocks
        /\ \A i, j \in 0..(k - 1) :
             i < j =>
               /\ mem[sorted[i]].adv.rssi >= mem[sorted[j]].adv.rssi
               /\ mem[sorted[i]].adv.rssi = mem[sorted[j]].adv.rssi =>
                    \E a, b \in 1..k :
                      a < b /\ w[a] = sorted[i] /\ w[b] = sorted[j]

\* Ids 1, 2, 3 with rssi 80, 200, 80, most recent first: the 200 moved to
\* the front and the two 80s kept their order.
C9_Witness ==
  /\ call.op = "print_queue_by_rssi"
  /\ status = "running"
  /\ Len(ByTime) = 3
  /\ IdsByTime = <<1, 2, 3>>
  /\ sorted[0] = ByTime[2]
  /\ sorted[1] = ByTime[1]
  /\ sorted[2] = ByTime[3]

(***************************************************************************)
(* C10 (over SpecPool)                                                     *)
(***************************************************************************)
\* C10: after pool_init with capacity C, from any earlier state of the
\* pool, the first C pool_alloc calls in a row return C different blocks,
\* every later one returns NULL, and a pool_alloc that directly follows
\* the pool_free of an allocated block returns a block.
C10_RunOfAllocs ==
  fresh =>
     /\ \A i \in 1..Len(allocs) : (allocs[i] # NULL) <=> (i <= header.blockcount)
     /\ \A i, j \in 1..Len(allocs) :
          (i < j /\ allocs[i] # NULL) => allocs[i] # allocs[j]

C10_FreeThenAlloc ==
  (/\ call.op = "pool_free"
   /\ call.path = "allocated"
   /\ call'.op = "pool_alloc") => call'.ret # NULL

C10_RoundTrip == []C10_RunOfAllocs /\ [][C10_FreeThenAlloc]_vars

\* A pool of N blocks was emptied by N allocations and the next one failed.
C10_Witness ==
  /\ fresh
  /\ header.blockcount = N
  /\ Len(allocs) = N + 1
  /\ allocs[N + 1] = NULL
  /\ owned = Blocks

(***************************************************************************)
(* C11 .. C13 (over SpecPool)                                              *)
(***************************************************************************)
RECURSIVE free_walk(_, _, _)
\* The walk pool_print makes over the free list, top first, cut after fuel
\* blocks.
free_walk(blk, cur, fuel) ==
  IF cur = NULL \/ fuel = 0 THEN <<>>
  ELSE <<cur>> \o free_walk(blk, blk[cur], fuel - 1)

\* The pool was set up by pool_init and not torn down by pool_destroy.
PoolLive == header.blocksize # 0

\* The free list, cut after N + 1 blocks (more than N means a cycle).
FreeList == free_walk(block, header.nextfree, N + 1)

\* The free list ends, holds no block twice and no more blocks than the
\* pool was initialised with.
FreeListOk ==
  \A fl \in {FreeList} :
     /\ Len(fl) <= header.blockcount
     /\ \A i, j \in 1..Len(fl) : i # j => fl[i] # fl[j]

\* C11: in a live pool every pool_free of a block that was released before
\* and not allocated since prints the double-free warning.
C11_DoubleFreeStep ==
  (PoolLive /\ call'.op = "pool_free" /\ call'.ptr \in released)
     => "double free" \in warn'

C11_DoubleFreeReported == [][C11_DoubleFreeStep]_vars

\* C12: in a live pool a pool_free of a block that was released before and
\* not allocated since leaves a sound free list sound: it still ends, holds
\* every block at most once and at most blockcount blocks.
C12_DoubleFreeStep ==
  (PoolLive /\ FreeListOk /\ call'.op = "pool_free" /\ call'.ptr \in released)
     => FreeListOk'

C12_DoubleFreeHarmless == [][C12_DoubleFreeStep]_vars

\* C13: between pool_destroy and the next pool_init every pool_alloc
\* returns NULL, whatever pool_alloc and pool_free calls came before it.
C13_DeadAfterDestroy ==
  (destroyed /\ call.op = "pool_alloc") => call.ret = NULL

(***************************************************************************)
(* C14, C15, C19, C20 (over Spec)                                          *)
(***************************************************************************)
\* C14: from an initialised pool of N blocks and an empty queue, whatever
\* on_discovery and queue_clear calls are made, on_discovery never gets NULL
\* for the block of a new entry: where it calls pool_alloc, once, the
\* result is a block.
C14_AllocNeverFails ==
  call.op = "on_discovery" =>
     /\ status = "running"
     /\ call.path \in {"merge", "reuse", "alloc"}
     /\ call.path = "alloc" => call.ret \in Blocks /\ call.pool = <<"pool_alloc">>

\* The last free block has just been allocated, after a queue_clear (without
\* one block 1, the first ever allocated, is not the block of a new entry).
C14_Witness ==
  /\ call.op = "on_discovery" /\ call.path = "alloc"
  /\ header.nextfree = NULL /\ device_count = N /\ head = 1

\* C15: queue_clear returns, leaving head and tail NULL, device_count 0 and
\* all N blocks on the free list, and prints no double-free warning.
C15_ClearEmptiesAll ==
  call.op = "queue_clear" =>
     /\ status = "running"
     /\ head = NULL /\ tail = NULL /\ device_count = 0
     /\ \A fl \in {FreeList} : Len(fl) = N /\ Range(fl) = Blocks
     /\ "double free" \notin warn
     /\ "null free" \notin warn

\* A full queue has been cleared: every block has held an entry, and as many
\* pool_free calls as blocks were made.
C15_Witness ==
  /\ call.op = "queue_clear"
  /\ Len(call.pool) = N
  /\ \A b \in Blocks : mem[b].adv.device_id # 0

\* C19: each of the N blocks is either on the free list or the node of
\* exactly one queue entry, never both and never neither: the number of
\* free blocks plus device_count is N.
C19_BlockConservation ==
  \A fl \in {FreeList}, w \in {ByTime} :
     /\ Len(w) = device_count
     /\ Len(fl) + device_count = N
     /\ Range(fl) \cap Range(w) = {}
     /\ Range(fl) \cup Range(w) = Blocks

\* Entries and free blocks side by side, a free block having held an entry
\* before.
C19_Witness ==
  /\ device_count > 0
  /\ \E b \in Range(FreeList) : mem[b].adv.device_id # 0

\* The doubly linked list of s: head, tail and device_count agree on
\* emptiness, head has no prev and tail no next, neighbours point at each
\* other, and the walk from head ends at tail after device_count nodes,
\* none visited twice.
WellFormed(s) ==
  \A w \in {queue_walk(s, s.head, N)} :
     /\ NoReturn \notin Range(w)
     /\ (s.head = NULL) = (s.tail = NULL)
     /\ (s.head = NULL) = (s.device_count = 0)
     /\ Len(w) = s.device_count
     /\ \A i, j \in 1..Len(w) : i # j => w[i] # w[j]
     /\ s.head # NULL => s.mem[s.head].prev = NULL
     /\ s.tail # NULL => s.mem[s.tail].next = NULL /\ w[Len(w)] = s.tail
     /\ \A i \in 1..Len(w) :
           /\ s.mem[w[i]].next # NULL => s.mem[s.mem[w[i]].next].prev = w[i]
           /\ s.mem[w[i]].prev # NULL => s.mem[s.mem[w[i]].prev].next = w[i]

RECURSIVE PopsWellFormed(_, _)
\* The list of s is well formed and stays so after each queue_pop of the
\* loop of queue_clear.
PopsWellFormed(s, fuel) ==
  /\ WellFormed(s)
  /\ (s.head # NULL /\ fuel > 0) => PopsWellFormed(queue_pop(s), fuel - 1)

\* C20: the list is well formed after every on_discovery and queue_clear,
\* and from there after queue_remove of any entry and after each queue_pop
\* down to the empty list (every queue_push ends an on_discovery).
C20_ListWellFormed ==
  /\ WellFormed(Cur)
  /\ \A n \in Range(ByTime) : WellFormed(queue_remove(Cur, n))
  /\ PopsWellFormed(Cur, N)

\* A full queue whose middle entry has just been removed and pushed to the
\* head.
C20_Witness ==
  /\ call.op = "on_discovery" /\ call.path = "merge"
  /\ device_count = N
  /\ \E i \in 2..(N - 1) : ByTime[1] = i

(***************************************************************************)
(* C16 (over SpecShort)                                                    *)
(***************************************************************************)
\* C16: when pool_alloc returns NULL to on_discovery, on_discovery reports
\* an error and returns normally, without writing the new entry through the
\* null pointer.
C16_ExhaustionSurfaced ==
  (call.op = "on_discovery" /\ "pool_alloc" \in Range(call.pool) /\ call.ret = NULL)
     => status = "running" /\ warn # {}

(***************************************************************************)
(* C17 (over SpecChanged)                                                  *)
(***************************************************************************)
\* C17: an on_discovery that merges changes no entry's device_id or
\* rf_address, whatever the observation carries, changes nothing of the
\* entries of other devices but their place in the list, keeps the same
\* nodes in the queue and leaves the pool header and the free-list links as
\* they were.
C17_MergeFrameStep ==
  \A before \in {ByTime}, after \in {ByTime'} :
     (call'.op = "on_discovery" /\ call'.path = "merge") =>
        /\ header' = header
        /\ block' = block
        /\ call'.pool = <<>>
        /\ Range(after) = Range(before)
        /\ \A n \in Range(before) :
              /\ mem'[n].adv.device_id = mem[n].adv.device_id
              /\ mem'[n].adv.rf_address = mem[n].adv.rf_address
              /\ mem[n].adv.device_id # call'.data.device_id =>
                    /\ mem'[n].adv = mem[n].adv
                    /\ mem'[n].discovery_time = mem[n].discovery_time

C17_MergeFrame == [][C17_MergeFrameStep]_vars

\* A merge whose observation carried another rf_address than the entry
\* holds, at a later time than another entry was last seen.
C17_Witness ==
  /\ call.op = "on_discovery" /\ call.path = "merge"
  /\ device_count >= 2
  /\ mem[head].adv.device_id = call.data.device_id
  /\ mem[head].adv.rf_address # call.data.rf_address
  /\ mem[tail].discovery_time < mem[head].discovery_time

(***************************************************************************)
(* C18 (over Spec)                                                         *)
(***************************************************************************)
\* C18, as claimed: an on_discovery that inserts into a full queue calls
\* pool_free for the block of the evicted entry and then pool_alloc for the
\* block of the new one.
C18_ReleaseThenAllocate ==
  (call.op = "on_discovery" /\ call.path = "reuse")
     => call.pool = <<"pool_free", "pool_alloc">>

\* C18, amended: an on_discovery that inserts into a full queue calls
\* neither pool_free nor pool_alloc: the node popped from the tail becomes
\* the node of the new entry at the head, the pool header and the free-list
\* links stay as they were, and the queue stays full.
C18_ReuseStep ==
  (call'.op = "on_discovery" /\ call'.path = "reuse") =>
     /\ call'.pool = <<>>
     /\ header' = header
     /\ block' = block
     /\ head' = tail
     /\ mem'[head'].adv = call'.data
     /\ device_count = N /\ device_count' = N

C18_ReuseInPlace == [][C18_ReuseStep]_vars

\* A new device has just been inserted into a full queue.
C18_Witness ==
  /\ call.op = "on_discovery" /\ call.path = "reuse"
  /\ device_count = N
  /\ mem[head].adv = call.data
  /\ Cardinality(observed) > N

====
